---- MODULE Spec2Model ----
(***************************************************************************)
(* QuranFruitAnalyzer (find.py): the Arabic text normalizer, the corpus    *)
(* loader, the TF-IDF similarity search, the fruit frequency counter and   *)
(* the interactive menu of main().                                         *)
(*                                                                         *)
(* A character is its Unicode code point (an integer); a Python str is a   *)
(* sequence of code points.  A cell of a table is a record: a str, a       *)
(* number or NaN (pandas' missing value).                                  *)
(***************************************************************************)
EXTENDS Integers, Sequences, FiniteSets, TLC

VARIABLES
    file,          \* the CSV file on disk: whether it exists, and its data rows
    pc,            \* position of the caller (a test harness, or main())
    df,            \* self.df
    vectorizer,    \* self.vectorizer
    tfidf_matrix,  \* self.tfidf_matrix
    out,           \* outcome of the last call: result, escaping exception, message
    nin,           \* normalizer: the input value
    once,          \* normalizer: _normalize_arabic(nin)
    twice          \* normalizer: _normalize_arabic(once)

vars == <<file, pc, df, vectorizer, tfidf_matrix, out, nin, once, twice>>

----------------------------------------------------------------------------
(* Bounds of the model.                                                    *)

MaxLen == 3      \* longest string handed to the normalizer on its own
MaxRows == 2     \* most data rows of a CSV file in SpecLoad
MaxDocs == 3     \* most data rows of a CSV file in SpecSearch and SpecMain
MaxTopN == 3     \* largest top_n the harness passes to find_related_verses
MaxScore == 3    \* number of distinct positive similarity levels

----------------------------------------------------------------------------
(* Values.                                                                 *)

Str(s) == [kind |-> "str", s |-> s, n |-> 0]
Num(n) == [kind |-> "num", s |-> <<>>, n |-> n]
NaN == [kind |-> "nan", s |-> <<>>, n |-> 0]

RECURSIVE SeqsUpTo(_, _)
\* all sequences over S of length at most n
SeqsUpTo(S, n) ==
    IF n = 0 THEN {<<>>}
    ELSE LET shorter == SeqsUpTo(S, n - 1)
         IN  shorter \cup {Append(s, c) : s \in shorter, c \in S}

----------------------------------------------------------------------------
(* _normalize_arabic                                                       *)

\* the character class [U+064B-U+065F U+0670]
IsDiacritic(c) == (c >= 1611 /\ c <= 1631) \/ c = 1648

NotDiacritic(c) == ~IsDiacritic(c)

RECURSIVE DropFirstDiacritic(_)
DropFirstDiacritic(s) ==
    IF s = <<>> THEN <<>>
    ELSE IF IsDiacritic(Head(s)) THEN Tail(s)
    ELSE <<Head(s)>> \o DropFirstDiacritic(Tail(s))

\* re.sub with count=1: only the first diacritic is removed
RemoveDiacritics_FirstOnly(s) == DropFirstDiacritic(s)

\* re.sub(r'[U+064B-U+065F U+0670]', '', text)
RemoveDiacritics(s) == SelectSeq(s, NotDiacritic)

\* '[U+0625 U+0623 U+0622 U+0627]' -> U+0627 (alef)
AlefChar(c) == IF c \in {1573, 1571, 1570, 1575} THEN 1575 ELSE c

\* '[U+064A U+0649]' -> U+064A (yeh)
YehChar(c) == IF c \in {1610, 1609} THEN 1610 ELSE c

\* U+0629 (teh marbuta) -> U+0647 (heh)
TehChar(c) == IF c = 1577 THEN 1607 ELSE c

NormalizeAlef(s) == [i \in 1..Len(s) |-> AlefChar(s[i])]
NormalizeYeh(s) == [i \in 1..Len(s) |-> YehChar(s[i])]
NormalizeTeh(s) == [i \in 1..Len(s) |-> TehChar(s[i])]

\* the four substitutions, in the order of the source
NormalizeStr(s) == NormalizeTeh(NormalizeYeh(NormalizeAlef(RemoveDiacritics(s))))

\* _normalize_arabic(text): '' for a value that is not a str
_normalize_arabic(text) ==
    IF text.kind # "str" THEN Str(<<>>) ELSE Str(NormalizeStr(text.s))

\* the characters the normalizer removes or rewrites to another character
IsRewritten(c) == IsDiacritic(c) \/ c \in {1573, 1571, 1570, 1609, 1577}

----------------------------------------------------------------------------
(* The normalizer on its own: every string of at most MaxLen characters    *)
(* over NormChars, and the values that are not strings.                    *)

\* U+064B, U+0651, U+065F, U+0670 (diacritics); U+0660 (just above the range);
\* the alef forms U+0625 U+0623 U+0622 U+0627; U+064A yeh, U+0649 alef maksura;
\* U+0629 teh marbuta, U+0647 heh; U+0646 noon; space
NormChars ==
    {1611, 1617, 1631, 1648, 1632, 1573, 1571, 1570, 1575, 1610, 1609,
     1577, 1607, 1606, 32}

NormInputs == {Str(s) : s \in SeqsUpTo(NormChars, MaxLen)} \cup {NaN, Num(1)}

\* the outcome of a call: what it returned, the exception that escaped it and
\* the messages it printed
NoOutcome ==
    [op |-> "none", raised |-> "none", printed |-> <<>>,
     q |-> <<>>, top_n |-> 0, sim |-> <<>>, idx |-> <<>>, rows |-> <<>>,
     counts |-> <<>>, choice |-> "none"]

NoAnalyzer ==
    /\ file = [exists |-> FALSE, rows |-> <<>>]
    /\ df = [loaded |-> FALSE, text_dtype |-> "object", rows |-> <<>>]
    /\ vectorizer = [created |-> FALSE, fitted |-> FALSE, vocabulary |-> {}]
    /\ tfidf_matrix = [present |-> FALSE, rows |-> <<>>]
    /\ out = NoOutcome

InitNorm ==
    /\ NoAnalyzer
    /\ pc = "norm0"
    /\ nin \in NormInputs
    /\ once = NaN
    /\ twice = NaN

NormalizeOnce ==
    /\ pc = "norm0"
    /\ once' = _normalize_arabic(nin)
    /\ pc' = "norm1"
    /\ UNCHANGED <<file, df, vectorizer, tfidf_matrix, out, nin, twice>>

NormalizeTwice ==
    /\ pc = "norm1"
    /\ twice' = _normalize_arabic(once)
    /\ pc' = "norm2"
    /\ UNCHANGED <<file, df, vectorizer, tfidf_matrix, out, nin, once>>

NextNorm == NormalizeOnce \/ NormalizeTwice

SpecNorm == InitNorm /\ [][NextNorm]_vars

\* C6: normalization is idempotent: normalizing the normalizer's output gives
\* that output again, for every input string.
C6_Idempotent == pc = "norm2" => twice = once

\* a string with a diacritic, a hamza alef and a teh marbuta was normalized twice
C6_Witness ==
    /\ pc = "norm2"
    /\ nin.kind = "str"
    /\ \E i, j, k \in 1..Len(nin.s) :
          IsDiacritic(nin.s[i]) /\ nin.s[j] = 1571 /\ nin.s[k] = 1577
    /\ once # nin

----------------------------------------------------------------------------
(* QuranFruitAnalyzer.__init__: read_csv, dropna, normalize, to_numeric.   *)
(* A data row of the file is three fields, each a string; an empty field   *)
(* is a missing value.                                                     *)

IsDigit(c) == c >= 48 /\ c <= 57

IsNumericField(s) == s # <<>> /\ \A i \in 1..Len(s) : IsDigit(s[i])

RECURSIVE ParseInt(_)
ParseInt(s) ==
    IF s = <<>> THEN 0
    ELSE 10 * ParseInt(SubSeq(s, 1, Len(s) - 1)) + (s[Len(s)] - 48)

\* pd.read_csv's dtype of a column, from its fields: a column of numbers is
\* int64, or float64 when a value is missing; a column with no rows, or with
\* a field that is no number, is object
ColumnDtype(fields) ==
    IF fields = <<>> THEN "object"
    ELSE IF \A i \in 1..Len(fields) : fields[i] = <<>> \/ IsNumericField(fields[i])
         THEN (IF \E i \in 1..Len(fields) : fields[i] = <<>>
               THEN "float64" ELSE "int64")
    ELSE "object"

ReadCell(dtype, field) ==
    IF field = <<>> THEN NaN
    ELSE IF dtype = "object" THEN Str(field)
    ELSE Num(ParseInt(field))

Column(rows, c) == [i \in 1..Len(rows) |-> rows[i][c]]

\* pd.read_csv(csv_path, encoding='utf-8')
read_csv(rows) ==
    [text_dtype |-> ColumnDtype(Column(rows, "verse_text")),
     rows |-> [i \in 1..Len(rows) |->
                 [c \in {"surah", "verse_number", "verse_text"} |->
                     ReadCell(ColumnDtype(Column(rows, c)), rows[i][c])]]]

IsNa(cell) == cell.kind = "nan"

Complete(row) ==
    ~IsNa(row.surah) /\ ~IsNa(row.verse_number) /\ ~IsNa(row.verse_text)

\* self.df.dropna(): the rows with no missing value
dropna(rows) == SelectSeq(rows, Complete)

\* the lambda is applied to no row
ApplyNormalize_Skipped(rows) == rows

\* self.df['verse_text'].apply(lambda x: self._normalize_arabic(x))
ApplyNormalize(rows) ==
    [i \in 1..Len(rows) |->
        [rows[i] EXCEPT !.verse_text = _normalize_arabic(rows[i].verse_text)]]

\* the dtype of the column apply() returns: of an empty column, its own
TextDtypeAfterApply(dtype, rows) == IF rows = <<>> THEN dtype ELSE "object"

\* pd.to_numeric of one value, errors='coerce'
ToNumericCell(cell) ==
    IF cell.kind = "str"
    THEN (IF IsNumericField(cell.s) THEN Num(ParseInt(cell.s)) ELSE NaN)
    ELSE cell

\* pd.to_numeric(self.df['verse_number'], errors='coerce')
to_numeric(rows) ==
    [i \in 1..Len(rows) |->
        [rows[i] EXCEPT !.verse_number = ToNumericCell(rows[i].verse_number)]]

\* QuranFruitAnalyzer.__init__(csv_path): the object's fields, or the
\* exception it prints and raises again
QuranFruitAnalyzer_init(f) ==
    IF ~f.exists
    THEN [raised |-> "FileNotFoundError", printed |-> <<"Error reading file">>,
          df |-> [loaded |-> FALSE, text_dtype |-> "object", rows |-> <<>>],
          vectorizer |-> [created |-> FALSE, fitted |-> FALSE, vocabulary |-> {}]]
    ELSE LET read == read_csv(f.rows)
             kept == dropna(read.rows)
         IN  [raised |-> "none", printed |-> <<>>,
              df |-> [loaded |-> TRUE,
                      text_dtype |-> TextDtypeAfterApply(read.text_dtype, kept),
                      rows |-> to_numeric(ApplyNormalize(kept))],
              vectorizer |-> [created |-> TRUE, fitted |-> FALSE, vocabulary |-> {}]]

----------------------------------------------------------------------------
(* preprocess_data: TfidfVectorizer().fit_transform.  The weights of the   *)
(* matrix are real numbers; the model keeps, for every row, the number of  *)
(* occurrences of every vocabulary term, which determines them.            *)

\* \w of the default token_pattern r"(?u)\b\w\w+\b": digits, Arabic letters
\* (U+0621-U+064A), Arabic-Indic digits, Arabic presentation forms
IsWordChar(c) ==
    \/ IsDigit(c)
    \/ (c >= 1569 /\ c <= 1610)
    \/ (c >= 1632 /\ c <= 1641)
    \/ (c >= 64336 /\ c <= 65276)

RECURSIVE Runs(_, _)
\* the maximal runs of word characters of s; cur is the run in progress
Runs(s, cur) ==
    LET done == IF cur = <<>> THEN <<>> ELSE <<cur>>
    IN  IF s = <<>> THEN done
        ELSE IF IsWordChar(Head(s)) THEN Runs(Tail(s), Append(cur, Head(s)))
        ELSE done \o Runs(Tail(s), <<>>)

TwoOrMore(run) == Len(run) >= 2

\* the vectorizer's analyzer: the runs of two or more word characters
Tokenize(s) == SelectSeq(Runs(s, <<>>), TwoOrMore)

\* one row of the term-document matrix: occurrences of each vocabulary term
TermCounts(tokens, vocabulary) ==
    [t \in vocabulary |-> Cardinality({i \in 1..Len(tokens) : tokens[i] = t})]

\* texts = self.df['verse_text'].astype(str)
Texts(d) == [i \in 1..Len(d.rows) |-> d.rows[i].verse_text.s]

Vocabulary(texts) ==
    UNION {{Tokenize(texts[i])[k] : k \in 1..Len(Tokenize(texts[i]))} :
              i \in 1..Len(texts)}

\* an except clause that prints the error and returns
PreprocessErrorEscapes_Swallowed(e) == "none"

\* the except clause of preprocess_data prints the error and raises it again
PreprocessErrorEscapes(e) == e

\* preprocess_data(): the fitted vectorizer and the matrix, or the exception
preprocess_data(d, vec) ==
    LET texts == Texts(d)
        vocabulary == Vocabulary(texts)
    IN  IF vocabulary = {}
        \* fit_transform raises ValueError("empty vocabulary; ...")
        THEN [raised |-> PreprocessErrorEscapes("ValueError"),
              printed |-> <<"Error processing data">>,
              vectorizer |-> vec,
              tfidf_matrix |-> [present |-> FALSE, rows |-> <<>>]]
        ELSE [raised |-> "none", printed |-> <<>>,
              vectorizer |-> [vec EXCEPT !.fitted = TRUE, !.vocabulary = vocabulary],
              tfidf_matrix |->
                  [present |-> TRUE,
                   rows |-> [i \in 1..Len(texts) |->
                               TermCounts(Tokenize(texts[i]), vocabulary)]]]

----------------------------------------------------------------------------
(* find_related_verses                                                     *)

\* a transform that fits the vectorizer on the query
VocabularyAfterTransform_Refit(vocabulary, q) ==
    {Tokenize(q)[k] : k \in 1..Len(Tokenize(q))}

\* self.vectorizer.transform([fruit_name]) leaves the fitted vocabulary alone
VocabularyAfterTransform(vocabulary, q) == vocabulary

Shares(qv, row) == \E t \in DOMAIN qv \cap DOMAIN row : qv[t] > 0 /\ row[t] > 0

\* cosine_similarity(query_vec, self.tfidf_matrix)[0].  Every tf-idf weight
\* of a term that occurs is positive, so a score is 0 exactly when the row
\* and the query share no vocabulary term; rows with the same term counts
\* have the same vector and the same score.  The value of a positive score
\* is a real number: the model takes every assignment of the levels
\* 1..MaxScore to the rows.
Similarities(qv, matrix) ==
    {sim \in [1..Len(matrix) -> 0..MaxScore] :
        /\ \A i \in 1..Len(matrix) : sim[i] = 0 <=> ~Shares(qv, matrix[i])
        /\ \A i, j \in 1..Len(matrix) : matrix[i] = matrix[j] => sim[i] = sim[j]}

IsPermutation(p, n) ==
    /\ \A i \in 1..n : \E k \in 1..n : p[k] = i

\* an argsort that leaves the rows in corpus order
ArgSorts_Unsorted(sim) == {[i \in 1..Len(sim) |-> i]}

\* similarity[0].argsort(): row numbers in ascending order of score.  The
\* default kind is quicksort, which is not stable: rows of equal score come
\* in any order.
ArgSorts(sim) ==
    {p \in [1..Len(sim) -> 1..Len(sim)] :
        /\ IsPermutation(p, Len(sim))
        /\ \A a, b \in 1..Len(sim) : a < b => sim[p[a]] <= sim[p[b]]}

\* a slice that keeps one element too many
LastN_OffByOne(order, top_n) ==
    SubSeq(order, IF Len(order) > top_n + 1 THEN Len(order) - top_n ELSE 1,
           Len(order))

\* order[-top_n:], top_n >= 1
LastN(order, top_n) ==
    SubSeq(order, IF Len(order) > top_n THEN Len(order) - top_n + 1 ELSE 1,
           Len(order))

\* [::-1]
Reverse(s) == [i \in 1..Len(s) |-> s[Len(s) + 1 - i]]

\* results[results['verse_text'].notna() & results['surah'].notna()]
Valid(d, i) == ~IsNa(d.rows[i].verse_text) /\ ~IsNa(d.rows[i].surah)

\* an except clause that raises the exception again
SearchErrorEscapes_Reraised(e) == e

\* the except clause of find_related_verses returns pd.DataFrame()
SearchErrorEscapes(e) == "none"

\* results = self.df.iloc[valid_indices], filtered: the row numbers returned
ResultIndices(d, order, top_n) ==
    SelectSeq(Reverse(LastN(order, top_n)), LAMBDA i : Valid(d, i))

\* find_related_verses(fruit_name, top_n): the outcomes it can have
find_related_verses(d, vec, mat, q, top_n) ==
    IF ~vec.fitted
    THEN {[NoOutcome EXCEPT !.op = "find", !.q = q, !.top_n = top_n,
              !.raised = SearchErrorEscapes("NotFittedError"),
              !.printed = <<"Error searching verses">>]}
    ELSE LET qv == TermCounts(Tokenize(q), vec.vocabulary)
         IN  UNION {{[NoOutcome EXCEPT !.op = "find", !.q = q, !.top_n = top_n,
                         !.sim = sim,
                         !.idx = ResultIndices(d, order, top_n),
                         !.rows = [k \in 1..Len(ResultIndices(d, order, top_n)) |->
                                     d.rows[ResultIndices(d, order, top_n)[k]]]] :
                       order \in ArgSorts(sim)} :
                    sim \in Similarities(qv, mat.rows)}

----------------------------------------------------------------------------
(* analyze_fruits_frequency                                                *)

\* fruit_variations, in the order of the dict.  The labels are the keys
\* 'Palm/...', 'Grape/...', 'Pomegranate/...', 'Olive/...', 'Fig/...'.
fruit_variations ==
    << [label |-> "Palm", variations |->
           << <<1606, 1582, 1604>>,
              <<1606, 1582, 1610, 1604>>,
              <<1575, 1604, 1606, 1582, 1604>>,
              <<1575, 1604, 1606, 1582, 1610, 1604>>,
              <<1606, 1582, 1604, 1577>>,
              <<65255, 65192, 65246>>,
              <<65255, 65192, 64511, 65246>> >>],
       [label |-> "Grape", variations |->
           << <<1593, 1606, 1576>>,
              <<1575, 1593, 1606, 1575, 1576>>,
              <<1575, 1604, 1571, 1593, 1606, 1575, 1576>>,
              <<1575, 1604, 1593, 1606, 1576>>,
              <<1571, 1593, 1606, 1575, 1576>>,
              <<1593, 1606, 1575, 1576, 1575>> >>],
       [label |-> "Pomegranate", variations |->
           << <<1585, 1605, 1575, 1606>>,
              <<1575, 1604, 1585, 1605, 1575, 1606>>,
              <<1585, 1605, 1617, 1575, 1606>>,
              <<1575, 1604, 1585, 1605, 1617, 1575, 1606>>,
              <<1585, 1605, 1617, 1575, 1606, 1612>>,
              <<1608, 1575, 1604, 1585, 1605, 1617, 1575, 1606>> >>],
       [label |-> "Olive", variations |->
           << <<1586, 1610, 1578, 1608, 1606>>,
              <<1575, 1604, 1586, 1610, 1578, 1608, 1606>>,
              <<1586, 1610, 1578, 1608, 1606, 1577>>,
              <<1586, 1610, 1578, 1608, 1606, 1575, 1611>>,
              <<1608, 1575, 1604, 1586, 1610, 1578, 1608, 1606>> >>],
       [label |-> "Fig", variations |->
           << <<1578, 1610, 1606>>,
              <<1575, 1604, 1578, 1610, 1606>>,
              <<1608, 1575, 1604, 1578, 1610, 1606>> >>] >>

Labels == {fruit_variations[k].label : k \in 1..Len(fruit_variations)}

Variations(l) ==
    fruit_variations[CHOOSE k \in 1..Len(fruit_variations) :
                         fruit_variations[k].label = l].variations

\* re.search of a pattern of literal characters: the text has it as a substring
Contains(text, variant) ==
    \E i \in 1..(Len(text) - Len(variant) + 1) :
        SubSeq(text, i, i + Len(variant) - 1) = variant

\* self.df['verse_text'].str.contains(variant, case=False, na=False, regex=True)
Mask(d, variant) ==
    [i \in 1..Len(d.rows) |->
        d.rows[i].verse_text.kind = "str" /\ Contains(d.rows[i].verse_text.s, variant)]

\* mask.sum()
MaskSum(mask) == Cardinality({i \in DOMAIN mask : mask[i]})

\* a count of the rows that hold any variant: each row once
CategoryCount_Dedup(d, variations) ==
    Cardinality({i \in 1..Len(d.rows) :
        \E k \in 1..Len(variations) : Mask(d, variations[k])[i]})

RECURSIVE CountLoop(_, _, _)
\* the inner loop from the k-th variant on: count += mask.sum()
CountLoop(d, variations, k) ==
    IF k > Len(variations) THEN 0
    ELSE MaskSum(Mask(d, variations[k])) + CountLoop(d, variations, k + 1)

\* the count of one category
CategoryCount(d, variations) == CountLoop(d, variations, 1)

\* the .str accessor raises AttributeError on a column that holds no strings:
\* an empty column of a numeric dtype
StrAccessorRaises(d) == d.rows = <<>> /\ d.text_dtype # "object"

\* analyze_fruits_frequency(): the dict it returns, or the exception that
\* escapes it
analyze_fruits_frequency(d) ==
    IF ~StrAccessorRaises(d)
    THEN [NoOutcome EXCEPT !.op = "freq",
             !.counts = [l \in Labels |-> CategoryCount(d, Variations(l))]]
    \* except: the message, then the debug line self.df['verse_text'].iloc[0]
    ELSE IF d.rows = <<>>
    THEN [NoOutcome EXCEPT !.op = "freq", !.raised = "IndexError",
             !.printed = <<"Error in frequency analysis">>]
    ELSE [NoOutcome EXCEPT !.op = "freq",
             !.printed = <<"Error in frequency analysis", "Current text being processed">>]

----------------------------------------------------------------------------
(* A caller of the class: it constructs the analyzer on a file and then    *)
(* calls its methods in any order.                                         *)

RawRow(surah, number, text) ==
    [surah |-> surah, verse_number |-> number, verse_text |-> text]

\* fields of the surah column: missing, '1'
SurahFields == {<<>>, <<49>>}

\* fields of the verse_number column: missing, '1', 'x'
NumberFields == {<<>>, <<49>>, <<120>>}

\* fields of the verse_text column: missing; '12'; nakhl nakhil; wa-al-tin
\* wa-al-zaytun; rumman with a shadda; nakhla (teh marbuta) a'nab (hamza alef)
LoadTexts ==
    {<<>>,
     <<49, 50>>,
     <<1606, 1582, 1604, 32, 1606, 1582, 1610, 1604>>,
     <<1608, 1575, 1604, 1578, 1610, 1606, 32,
       1608, 1575, 1604, 1586, 1610, 1578, 1608, 1606>>,
     <<1585, 1605, 1617, 1575, 1606>>,
     <<1606, 1582, 1604, 1577, 32, 1571, 1593, 1606, 1575, 1576>>}

\* fields of the verse_text column in SpecSearch and SpecMain: missing; tin;
\* rumman; tin rumman
SearchTexts ==
    {<<>>,
     <<1578, 1610, 1606>>,
     <<1585, 1605, 1575, 1606>>,
     <<1578, 1610, 1606, 32, 1585, 1605, 1575, 1606>>}

\* the queries: tin; rumman; 'inab (in no text); tin rumman
Queries ==
    {<<1578, 1610, 1606>>,
     <<1585, 1605, 1575, 1606>>,
     <<1593, 1606, 1576>>,
     <<1578, 1610, 1606, 32, 1585, 1605, 1575, 1606>>}

TablesUpTo(Rows, n) == UNION {[1..k -> Rows] : k \in 0..n}

LoadFiles ==
    {[exists |-> FALSE, rows |-> <<>>]} \cup
    {[exists |-> TRUE, rows |-> rows] :
        rows \in TablesUpTo({RawRow(s, v, x) :
                    s \in SurahFields, v \in NumberFields, x \in LoadTexts}, MaxRows)}

SearchFiles ==
    {[exists |-> FALSE, rows |-> <<>>]} \cup
    {[exists |-> TRUE, rows |-> rows] :
        rows \in TablesUpTo({RawRow(<<49>>, <<49>>, x) : x \in SearchTexts}, MaxDocs)}

NotConstructed ==
    /\ df = [loaded |-> FALSE, text_dtype |-> "object", rows |-> <<>>]
    /\ vectorizer = [created |-> FALSE, fitted |-> FALSE, vocabulary |-> {}]
    /\ tfidf_matrix = [present |-> FALSE, rows |-> <<>>]
    /\ out = NoOutcome
    /\ nin = NaN /\ once = NaN /\ twice = NaN

\* analyzer = QuranFruitAnalyzer(path)
Construct ==
    /\ pc = "new"
    /\ LET r == QuranFruitAnalyzer_init(file)
       IN  /\ df' = r.df
           /\ vectorizer' = r.vectorizer
           /\ out' = [NoOutcome EXCEPT !.op = "init", !.raised = r.raised,
                                       !.printed = r.printed]
           /\ pc' = IF r.raised = "none" THEN "returned" ELSE "failed"
    /\ UNCHANGED <<file, tfidf_matrix, nin, once, twice>>

\* main's except clause: print(f"General program error: {e}")
General(printed) == printed \o <<"General program error">>

\* what a call of preprocess_data does to the object and its caller
Build(op) ==
    LET r == preprocess_data(df, vectorizer)
    IN  /\ vectorizer' = r.vectorizer
        /\ tfidf_matrix' = IF r.tfidf_matrix.present THEN r.tfidf_matrix
                           ELSE tfidf_matrix
        /\ out' = [NoOutcome EXCEPT !.op = op, !.raised = r.raised,
                      !.printed = IF op = "main_preprocess" /\ r.raised # "none"
                                  THEN General(r.printed) ELSE r.printed]

\* analyzer.preprocess_data()
Preprocess ==
    /\ pc = "ready"
    /\ Build("preprocess")
    /\ pc' = "returned"
    /\ UNCHANGED <<file, df, nin, once, twice>>

\* what the caller makes of the result: main() prints the verses, or that
\* there are none
Shown(r, op) ==
    IF op = "search" /\ r.raised = "none"
    THEN [r EXCEPT !.op = op, !.choice = "1",
             !.printed = r.printed \o
                 (IF r.rows = <<>> THEN <<"No verses found.">>
                  ELSE <<"Related verses:">>)]
    ELSE IF op = "search"
    THEN [r EXCEPT !.op = op, !.choice = "1", !.printed = General(r.printed)]
    ELSE [r EXCEPT !.op = op]

\* what a call of find_related_verses does to the object and its caller
Search(q, top_n, op) ==
    /\ \E r \in find_related_verses(df, vectorizer, tfidf_matrix, q, top_n) :
          out' = Shown(r, op)
    /\ vectorizer' =
          IF vectorizer.fitted
          THEN [vectorizer EXCEPT
                   !.vocabulary = VocabularyAfterTransform(vectorizer.vocabulary, q)]
          ELSE vectorizer
    /\ UNCHANGED <<file, df, tfidf_matrix, nin, once, twice>>

\* analyzer.find_related_verses(q, top_n)
Find ==
    /\ pc = "ready"
    /\ \E q \in Queries, top_n \in 1..MaxTopN : Search(q, top_n, "find")
    /\ pc' = "returned"

\* analyzer.analyze_fruits_frequency()
Analyze ==
    /\ pc = "ready"
    /\ out' = analyze_fruits_frequency(df)
    /\ pc' = "returned"
    /\ UNCHANGED <<file, df, vectorizer, tfidf_matrix, nin, once, twice>>

\* the caller has looked at the outcome of the call and goes on
Return ==
    /\ pc = "returned"
    /\ pc' = "ready"
    /\ out' = NoOutcome
    /\ UNCHANGED <<file, df, vectorizer, tfidf_matrix, nin, once, twice>>

InitLoad == pc = "new" /\ file \in LoadFiles /\ NotConstructed

NextLoad == Construct \/ Analyze \/ Return

\* the loader and the frequency counter, on every file of LoadFiles
SpecLoad == InitLoad /\ [][NextLoad]_vars

InitSearch == pc = "new" /\ file \in SearchFiles /\ NotConstructed

NextSearch == Construct \/ Preprocess \/ Find \/ Analyze \/ Return

\* the whole class, on every file of SearchFiles
SpecSearch == InitSearch /\ [][NextSearch]_vars

----------------------------------------------------------------------------
(* main(): construct, build, then the menu loop.  input() returns a line,  *)
(* or raises EOFError when the input has ended; main's except clause       *)
(* catches what escapes the loop, prints it and main returns.              *)

\* top_n=5 of find_related_verses
DefaultTopN == 5

\* analyzer = QuranFruitAnalyzer('quran_verses.csv')
MainConstruct ==
    /\ pc = "main"
    /\ LET r == QuranFruitAnalyzer_init(file)
       IN  /\ df' = r.df
           /\ vectorizer' = r.vectorizer
           /\ out' = [NoOutcome EXCEPT !.op = "init", !.raised = r.raised,
                         !.printed = IF r.raised = "none" THEN r.printed
                                     ELSE General(r.printed)]
           /\ pc' = IF r.raised = "none" THEN "constructed" ELSE "aborted"
    /\ UNCHANGED <<file, tfidf_matrix, nin, once, twice>>

\* analyzer.preprocess_data()
MainPreprocess ==
    /\ pc = "constructed"
    /\ Build("main_preprocess")
    /\ pc' = IF out'.raised = "none" THEN "loop" ELSE "aborted"
    /\ UNCHANGED <<file, df, nin, once, twice>>

\* while True: the three options are printed
ShowMenu ==
    /\ pc = "loop"
    /\ pc' = "prompt"
    /\ out' = [NoOutcome EXCEPT !.op = "menu", !.printed = <<"menu">>]
    /\ UNCHANGED <<file, df, vectorizer, tfidf_matrix, nin, once, twice>>

\* choice == '1': the fruit is read, searched for and the verses are printed
OptionSearch ==
    /\ pc = "prompt"
    /\ \E fruit \in Queries : Search(fruit, DefaultTopN, "search")
    /\ pc' = IF out'.raised = "none" THEN "loop" ELSE "aborted"

\* choice == '2': the frequencies are computed and printed
OptionFrequency ==
    /\ pc = "prompt"
    /\ LET r == analyze_fruits_frequency(df)
       IN  out' = [r EXCEPT !.choice = "2",
                      !.printed = IF r.raised = "none"
                                  THEN r.printed \o <<"Fruit frequencies in Quran:">>
                                  ELSE General(r.printed)]
    /\ pc' = IF out'.raised = "none" THEN "loop" ELSE "aborted"
    /\ UNCHANGED <<file, df, vectorizer, tfidf_matrix, nin, once, twice>>

\* choice == '3': break
OptionExit ==
    /\ pc = "prompt"
    /\ out' = [NoOutcome EXCEPT !.op = "exit", !.choice = "3",
                                !.printed = <<"Program ended.">>]
    /\ pc' = "ended"
    /\ UNCHANGED <<file, df, vectorizer, tfidf_matrix, nin, once, twice>>

\* any other choice
OptionInvalid ==
    /\ pc = "prompt"
    /\ out' = [NoOutcome EXCEPT !.op = "invalid", !.choice = "other",
                                !.printed = <<"Invalid option!">>]
    /\ pc' = "loop"
    /\ UNCHANGED <<file, df, vectorizer, tfidf_matrix, nin, once, twice>>

\* input() raises EOFError, at the menu's prompt or at the fruit's
InputEnds ==
    /\ pc = "prompt"
    /\ \E choice \in {"none", "1"} :
          out' = [NoOutcome EXCEPT !.op = "input", !.choice = choice,
                     !.raised = "EOFError", !.printed = General(<<>>)]
    /\ pc' = "aborted"
    /\ UNCHANGED <<file, df, vectorizer, tfidf_matrix, nin, once, twice>>

InitMain == pc = "main" /\ file \in SearchFiles /\ NotConstructed

NextMain ==
    \/ MainConstruct
    \/ MainPreprocess
    \/ ShowMenu
    \/ OptionSearch
    \/ OptionFrequency
    \/ OptionExit
    \/ OptionInvalid
    \/ InputEnds

\* main() on every file of SearchFiles
SpecMain == InitMain /\ [][NextMain]_vars

----------------------------------------------------------------------------
(* The claims.                                                             *)

Returned == {out.idx[k] : k \in 1..Len(out.idx)}

SearchedBuilt == out.op = "find" /\ vectorizer.fitted /\ tfidf_matrix.present

SearchedUnbuilt == out.op = "find" /\ ~vectorizer.fitted /\ ~tfidf_matrix.present

C2_TopNOrdered ==
    SearchedBuilt =>
        /\ out.raised = "none"
        /\ Len(out.rows) <= out.top_n
        /\ Len(out.rows) = Len(out.idx)
        /\ \A k \in 1..Len(out.rows) :
              out.idx[k] \in 1..Len(df.rows) /\ out.rows[k] = df.rows[out.idx[k]]
        /\ \A a, b \in 1..Len(out.idx) :
              a < b => out.sim[out.idx[a]] >= out.sim[out.idx[b]]

\* top_n cut a corpus of three rows down to two, of different positive scores
C2_Witness ==
    /\ SearchedBuilt
    /\ Len(df.rows) = 3
    /\ out.top_n = 2
    /\ Len(out.rows) = 2
    /\ out.sim[out.idx[1]] > out.sim[out.idx[2]]
    /\ out.sim[out.idx[2]] > 0

\* C3 as stated: rows of equal score come in corpus order, and of the rows
\* tied at the cut-off those with the smaller corpus index are returned.
C3_Original ==
    SearchedBuilt =>
        /\ \A a, b \in 1..Len(out.idx) :
              (a < b /\ out.sim[out.idx[a]] = out.sim[out.idx[b]])
                  => out.idx[a] < out.idx[b]
        /\ \A i \in Returned, j \in (1..Len(df.rows)) \ Returned :
              out.sim[i] = out.sim[j] => i < j

\* C3, as the code has it: the rows are selected by score alone: no row left
\* out scores higher than a row returned.  Among rows of equal score neither
\* the order nor the choice at the cut-off follows corpus order.
C3_SelectedByScore ==
    SearchedBuilt =>
        \A i \in Returned, j \in (1..Len(df.rows)) \ Returned :
            out.sim[j] <= out.sim[i]

\* a query with no vocabulary term, all three scores 0, top_n = 2: the tie
\* straddles the cut-off and the rows returned are the last two, last first
C3_Witness ==
    /\ SearchedBuilt
    /\ Len(df.rows) = 3
    /\ \A i \in 1..3 : out.sim[i] = 0
    /\ out.top_n = 2
    /\ out.idx = <<3, 2>>

\* C4 as stated: no record of the loaded corpus has a missing surah,
\* verse_number or verse_text, and the corpus has at most as many records as
\* the file has rows, also when a verse_number is present but no number.
C4_Original ==
    df.loaded =>
        /\ \A i \in 1..Len(df.rows) : Complete(df.rows[i])
        /\ Len(df.rows) <= Len(file.rows)

MainRunning == pc \in {"loop", "prompt"}

\* C5 as stated: a startup failure stops the program before the menu, and
\* the menu loop ends only when the user selects option 3.
C5_Original ==
    [][/\ (out'.op \in {"init", "main_preprocess"} /\ out'.raised # "none")
             => pc' = "aborted"
       /\ (pc = "prompt" /\ ~MainRunning') => out'.choice = "3"]_vars

\* C5, as the code has it: a failure of the constructor or of preprocess_data
\* ends main() and the menu is shown only after both succeeded; a search or a
\* frequency analysis chosen at the menu is followed by the menu again; the
\* loop ends only when the user selects option 3 or when input() itself
\* raises (the input has ended), which main reports as a general error.
C5_LoopEnds ==
    [][/\ (out'.op \in {"init", "main_preprocess"} /\ out'.raised # "none")
             => /\ pc' = "aborted"
                /\ out'.printed[Len(out'.printed)] = "General program error"
       /\ out'.op = "menu"
             => (df.loaded /\ vectorizer.fitted /\ tfidf_matrix.present)
       /\ (pc = "prompt" /\ out'.op \in {"search", "freq"})
             => (pc' = "loop" /\ out'.raised = "none")
       /\ (pc = "prompt" /\ ~MainRunning')
             => \/ (out'.choice = "3" /\ pc' = "ended")
                \/ (out'.raised = "EOFError" /\ pc' = "aborted")]_vars

\* startup succeeded, a search was chosen at the menu, its verses were printed
\* and the loop goes on
C5_Witness ==
    /\ pc = "loop"
    /\ out.op = "search"
    /\ out.raised = "none"
    /\ out.rows # <<>>
    /\ out.printed = <<"Related verses:">>

\* C7: the count of a category is the sum, over its variants, of the number
\* of rows whose verse_text has the variant as a substring, a row counting
\* once for every variant it has; the one-row corpus 'nakhl nakhil' gives 2
\* for Palm.
C7_SumOverVariants ==
    (out.op = "freq" /\ out.raised = "none") =>
        /\ DOMAIN out.counts = Labels
        /\ \A l \in Labels :
              out.counts[l] =
                  Cardinality({p \in (1..Len(Variations(l))) \X (1..Len(df.rows)) :
                      Contains(df.rows[p[2]].verse_text.s, Variations(l)[p[1]])})
        /\ (/\ Len(df.rows) = 1
            /\ df.rows[1].verse_text.s =
                   <<1606, 1582, 1604, 32, 1606, 1582, 1610, 1604>>)
              => out.counts["Palm"] = 2

\* the one-row corpus 'nakhl nakhil' was counted
C7_Witness ==
    /\ out.op = "freq"
    /\ out.raised = "none"
    /\ Len(df.rows) = 1
    /\ df.rows[1].verse_text.s = <<1606, 1582, 1604, 32, 1606, 1582, 1610, 1604>>
    /\ out.counts["Palm"] = 2

\* C8 as stated: analyze_fruits_frequency returns non-negative integers, and
\* on an empty corpus it returns the five labels, each with 0, and does not
\* raise.
C8_Original ==
    out.op = "freq" =>
        /\ \A l \in DOMAIN out.counts : out.counts[l] \in Nat
        /\ df.rows = <<>> =>
              /\ out.raised = "none"
              /\ DOMAIN out.counts = Labels
              /\ \A l \in Labels : out.counts[l] = 0

\* C9: once the index is built, a call of find_related_verses or of
\* analyze_fruits_frequency leaves the corpus, the fitted vocabulary and the
\* TF-IDF matrix as they were.
C9_ReadOnly ==
    [][(tfidf_matrix.present /\ out'.op \in {"find", "freq"})
          => (df' = df /\ vectorizer' = vectorizer /\ tfidf_matrix' = tfidf_matrix)]_vars

\* a built index was searched with a query that has a term of the vocabulary
\* and one that it has not
C9_Witness ==
    /\ SearchedBuilt
    /\ out.rows # <<>>
    /\ \E k \in 1..Len(Tokenize(out.q)) : Tokenize(out.q)[k] \notin vectorizer.vocabulary
    /\ \E k \in 1..Len(Tokenize(out.q)) : Tokenize(out.q)[k] \in vectorizer.vocabulary

\* C10: no verse_text of a loaded corpus has a character the normalizer
\* removes or rewrites, so a variant of the lexicon that the normalizer would
\* change is in no row and adds 0 to the count of its category.
C10_NormalizedCorpus ==
    df.loaded =>
        /\ \A i \in 1..Len(df.rows) :
              /\ df.rows[i].verse_text.kind = "str"
              /\ \A k \in 1..Len(df.rows[i].verse_text.s) :
                    ~IsRewritten(df.rows[i].verse_text.s[k])
        /\ \A l \in Labels : \A k \in 1..Len(Variations(l)) :
              NormalizeStr(Variations(l)[k]) # Variations(l)[k]
                  => MaskSum(Mask(df, Variations(l)[k])) = 0

\* a text written with a shadda was loaded and counted: rumman is found once,
\* by the variant without the shadda
C10_Witness ==
    /\ out.op = "freq"
    /\ out.raised = "none"
    /\ Len(df.rows) = 1 /\ Len(file.rows) = 1
    /\ \E k \in 1..Len(file.rows[1].verse_text) :
          IsRewritten(file.rows[1].verse_text[k])
    /\ out.counts["Pomegranate"] = 1

====
